---- MODULE Spec2Model ----
(***************************************************************************)
(* vectorviz: the shape generators of vectorviz/data/_data_generator.py    *)
(* (make_moons, make_spiral, make_swiss_roll) and the 3D scatter renderer  *)
(* of vectorviz/visualize/_plot.py, as calls running in threads of one     *)
(* Python process that share numpy's process-wide RandomState.             *)
(*                                                                         *)
(* Reals are fixed-point integers in thousandths (1.0 is 1000).            *)
(* An optional value is a sequence: <<>> is None, <<v>> is the value v.    *)
(***************************************************************************)
EXTENDS Integers, Sequences, FiniteSets, TLC

VARIABLES call, pc, status, generator, rand_state, rng0, drawn, X, y, t, theta, color, figures

vars == <<call, pc, status, generator, rand_state, rng0, drawn, X, y, t, theta, color, figures>>

\* ------------------------------------------------------------- bounds
MaxSamples == 5
MaxPerClass == 2
MaxClasses == 3
MaxRollSamples == 3
MaxPoints == 2
RngPeriod == 8

Threads == {1, 2}

\* ------------------------------------------------------------- values
None == <<>>
Some(v) == <<v>>

Pi == 3142

Mul(a, b) == (a * b) \div 1000

\* 0/0 is nan, x/0 is inf, as numpy's float division gives (with a warning, no error)
Finite(v) == [kind |-> "finite", val |-> v]
NaN == [kind |-> "nan", val |-> 0]
Inf == [kind |-> "inf", val |-> 0]
TrueDivide(a, b) ==
  IF b = 0 THEN (IF a = 0 THEN NaN ELSE Inf) ELSE Finite((a * 1000) \div b)

\* sine of x degrees, 0 <= x <= 180, in thousandths
HalfTurnSin(x) == (4000 * x * (180 - x)) \div (40500 - x * (180 - x))
SinDeg(d) == LET r == d % 360 IN IF r <= 180 THEN HalfTurnSin(r) ELSE 0 - HalfTurnSin(r - 180)
\* x radians (in thousandths) to the nearest degree
Degrees(x) == (x * 360 + Pi) \div (2 * Pi)
np_sin(x) == SinDeg(Degrees(x))
np_cos(x) == SinDeg(Degrees(x) + 90)

np_linspace(start, stop, num) ==
  [i \in 1..num |-> IF num = 1 THEN start
                    ELSE start + ((i - 1) * (stop - start)) \div (num - 1)]

RECURSIVE SeqMin(_), SeqMax(_)
SeqMin(s) == IF Len(s) = 1 THEN s[1]
             ELSE LET m == SeqMin(Tail(s)) IN IF s[1] < m THEN s[1] ELSE m
SeqMax(s) == IF Len(s) = 1 THEN s[1]
             ELSE LET m == SeqMax(Tail(s)) IN IF s[1] > m THEN s[1] ELSE m

\* ------------------------------------------------------------- the random source
\* the one RandomState instance of the process, np.random.mtrand._rand
GlobalRand == <<"mtrand._rand">>
NewInstance == <<"RandomState">>
Unbound == <<>>

check_random_state_fresh(seed) == NewInstance
check_random_state(seed) == IF seed = None THEN GlobalRand ELSE NewInstance

\* the stream: the state after k draws, and the states the next k draws read
Advance(s, k) == (s + k) % RngPeriod
Reads(s, k) == [i \in 1..k |-> Advance(s, i - 1)]
\* one uniform [0,1) value and one standard normal value, by the state read
Uniform(s) == (s * 1000) \div RngPeriod
Gauss(s) == (((s * 7) % 5) - 2) * 500

\* ------------------------------------------------------------- the calls
Moons == "make_moons"
Spiral == "make_spiral"
SwissRoll == "make_swiss_roll"
Scatter == "ipython_3d_scatter"

RatioSet == {0 - 1000, 0, 500, 1000, 2000}
GapSet == {0 - 400, 0 - 300, 0, 500}
NoiseSet == {None, Some(0), Some(500)}

PyInt(k) == [type |-> "int", val |-> k * 1000]
PyFloat(v) == [type |-> "float", val |-> v]
ClassesSet == {PyInt(k) : k \in (0 - 1)..MaxClasses} \cup {PyFloat(2000), PyFloat(2500)}

MoonsCalls ==
  [fn : {Moons}, n_samples : 0..MaxSamples, xy_ratio : RatioSet,
   x_gap : GapSet, y_gap : GapSet, noise : NoiseSet]
SpiralCalls ==
  [fn : {Spiral}, n_samples_per_class : 1..MaxPerClass, n_classes : ClassesSet,
   n_rotations : {3000}, gap_between_spiral : {0},
   gap_between_start_point : {0, 500}, equal_interval : BOOLEAN, noise : NoiseSet]
SwissRollCalls ==
  [fn : {SwissRoll}, n_samples : 0..MaxRollSamples, n_rotations : {0, 1500},
   gap : {0, 1000}, thickness : {0, 500}, width : {10000}]
\* the renderer's arguments by their shapes: X is rows x cols, color and text by length
ScatterCalls ==
  [fn : {Scatter}, rows : 1..MaxPoints, cols : {2, 3, 4}, color : 1..MaxPoints,
   text : {None} \cup {Some(n) : n \in 1..MaxPoints}]

AllCalls == MoonsCalls \cup SpiralCalls \cup SwissRollCalls \cup ScatterCalls
NoCall == [fn |-> "none"]

Entry(c) ==
  CASE c.fn = Moons -> "moons:33"
    [] c.fn = Spiral -> "spiral:89"
    [] c.fn = SwissRoll -> "swiss_roll:152"
    [] c.fn = Scatter -> "plot:1"
    [] OTHER -> "done"

InitThreads(calls) ==
  /\ call = calls
  /\ pc = [p \in Threads |-> Entry(calls[p])]
  /\ status = [p \in Threads |-> IF calls[p] = NoCall THEN "idle" ELSE "running"]
  /\ generator = [p \in Threads |-> Unbound]
  /\ rng0 \in 0..(RngPeriod - 1)
  /\ rand_state = (GlobalRand :> rng0)
  /\ drawn = [p \in Threads |-> <<>>]
  /\ X = [p \in Threads |-> <<>>]
  /\ y = [p \in Threads |-> <<>>]
  /\ t = [p \in Threads |-> <<>>]
  /\ theta = [p \in Threads |-> <<>>]
  /\ color = [p \in Threads |-> Unbound]
  /\ figures = <<>>

\* one call, in thread 1
Init == \E c \in AllCalls : InitThreads((1 :> c) @@ (2 :> NoCall))

\* ------------------------------------------------------------- shared steps
Raise(p, exc) ==
  /\ status' = [status EXCEPT ![p] = exc]
  /\ pc' = [pc EXCEPT ![p] = "done"]

Goto(p, label) == pc' = [pc EXCEPT ![p] = label]

\* generator = check_random_state(None)
ObtainGenerator(p) ==
  LET g == check_random_state(None) IN
  IF g = GlobalRand
  THEN /\ generator' = [generator EXCEPT ![p] = GlobalRand]
       /\ UNCHANGED rand_state
  ELSE /\ generator' = [generator EXCEPT ![p] = <<"RandomState", p>>]
       /\ rand_state' = (<<"RandomState", p>> :> 0) @@ rand_state

\* one call of a method of the generator drawing k values: atomic under the
\* instance's lock
Draw(p, k) ==
  /\ rand_state' = [rand_state EXCEPT ![generator[p]] = Advance(@, k)]
  /\ drawn' = [drawn EXCEPT ![p] = @ \o Reads(rand_state[generator[p]], k)]

\* ------------------------------------------------------------- make_moons
moons_precondition_strict(a) ==
  /\ a.xy_ratio > 0
  /\ 0 - 300 < a.x_gap
  /\ 0 - 300 < a.y_gap
moons_precondition(a) ==
  /\ a.xy_ratio > 0
  /\ 0 - 300 <= a.x_gap
  /\ 0 - 300 <= a.y_gap

n_samples_out_ceil(n_samples) == (n_samples + 1) \div 2
n_samples_out(n_samples) == n_samples \div 2
n_samples_in(n_samples) == n_samples - n_samples_out(n_samples)

moons_points(a) ==
  LET n_out == n_samples_out(a.n_samples)
      n_in == n_samples_in(a.n_samples)
      lin_out == np_linspace(0, Pi, n_out)
      lin_in == np_linspace(0, Pi, n_in)
      outer_circ_x == [i \in 1..n_out |-> np_cos(lin_out[i]) - a.x_gap]
      outer_circ_y == [i \in 1..n_out |-> Mul(a.xy_ratio, np_sin(lin_out[i])) + a.y_gap]
      inner_circ_x == [i \in 1..n_in |-> 1000 - np_cos(lin_in[i]) + a.x_gap]
      inner_circ_y == [i \in 1..n_in |->
                         Mul(a.xy_ratio, 1000 - np_sin(lin_in[i]) - (500 + a.y_gap))]
      xs == outer_circ_x \o inner_circ_x
      ys == outer_circ_y \o inner_circ_y
  IN [i \in 1..(n_out + n_in) |-> <<xs[i], ys[i]>>]

moons_labels(a) ==
  [i \in 1..n_samples_out(a.n_samples) |-> 0]
    \o [i \in 1..n_samples_in(a.n_samples) |-> 1]

noise_always(noise) == TRUE
noise_is_not_None(noise) == noise # None

scale_of(noise) == IF noise = None THEN 0 ELSE noise[1]

\* generator.normal(scale=noise, size=(n, 2)) read from state s, row by row,
\* with column 1 scaled by xy_ratio
moons_noise(a, n, s) ==
  [i \in 1..n |->
     <<Mul(scale_of(a.noise), Gauss(Advance(s, 2 * (i - 1)))),
       Mul(Mul(scale_of(a.noise), Gauss(Advance(s, 2 * (i - 1) + 1))), a.xy_ratio)>>]

MoonsAssertLate(p) ==
  /\ pc[p] = "moons:33"
  /\ generator' = [generator EXCEPT ![p] = GlobalRand]
  /\ IF moons_precondition(call[p]) THEN Goto(p, "moons:37") /\ UNCHANGED status
     ELSE Raise(p, "AssertionError")
  /\ UNCHANGED <<call, rand_state, rng0, drawn, X, y, t, theta, color, figures>>

\* lines 33-35
MoonsAssert(p) ==
  /\ pc[p] = "moons:33"
  /\ IF moons_precondition(call[p]) THEN Goto(p, "moons:37") /\ UNCHANGED status
     ELSE Raise(p, "AssertionError")
  /\ UNCHANGED <<call, generator, rand_state, rng0, drawn, X, y, t, theta, color, figures>>

\* lines 37-40
MoonsGenerator(p) ==
  /\ pc[p] = "moons:37"
  /\ ObtainGenerator(p)
  /\ Goto(p, "moons:42")
  /\ UNCHANGED <<call, status, rng0, drawn, X, y, t, theta, color, figures>>

\* lines 42-50
MoonsArcs(p) ==
  /\ pc[p] = "moons:42"
  /\ X' = [X EXCEPT ![p] = moons_points(call[p])]
  /\ y' = [y EXCEPT ![p] = moons_labels(call[p])]
  /\ Goto(p, "moons:52")
  /\ UNCHANGED <<call, status, generator, rand_state, rng0, drawn, t, theta, color, figures>>

\* lines 52-55
MoonsNoise(p) ==
  /\ pc[p] = "moons:52"
  /\ IF noise_is_not_None(call[p].noise)
     THEN LET n == Len(X[p])
              noise == moons_noise(call[p], n, rand_state[generator[p]])
          IN /\ Draw(p, 2 * n)
             /\ X' = [X EXCEPT ![p] =
                        [i \in 1..n |-> <<X[p][i][1] + noise[i][1], X[p][i][2] + noise[i][2]>>]]
     ELSE UNCHANGED <<rand_state, drawn, X>>
  /\ Goto(p, "moons:57")
  /\ UNCHANGED <<call, status, generator, rng0, y, t, theta, color, figures>>

\* line 57
MoonsReturn(p) ==
  /\ pc[p] = "moons:57"
  /\ status' = [status EXCEPT ![p] = "returned"]
  /\ Goto(p, "done")
  /\ UNCHANGED <<call, generator, rand_state, rng0, drawn, X, y, t, theta, color, figures>>

\* ------------------------------------------------------------- make_spiral
spiral_precondition_any_number(a) == 1000 <= a.n_classes.val
spiral_precondition(a) == 1000 <= a.n_classes.val /\ a.n_classes.type = "int"

\* the names make_spiral can resolve: its parameters and the names it assigns,
\* then the names bound at module level
spiral_locals ==
  {"n_samples_per_class", "n_classes", "n_rotations", "gap_between_spiral",
   "gap_between_start_point", "equal_interval", "noise", "generator", "X_array",
   "theta", "c", "t_shift", "x_shift", "y_shift", "t", "x", "y", "X", "color"}
module_globals ==
  {"np", "check_random_state", "make_moons", "make_spiral", "make_swiss_roll"}
Resolves(name) == name \in spiral_locals \cup module_globals

spiral_theta(a) ==
  LET n == a.n_classes.val \div 1000
      lin == np_linspace(0, 1000, n + 1)
  IN [i \in 1..n |-> Mul(2 * Pi, lin[i])]

\* line 89
SpiralAssert(p) ==
  /\ pc[p] = "spiral:89"
  /\ IF spiral_precondition(call[p]) THEN Goto(p, "spiral:91") /\ UNCHANGED status
     ELSE Raise(p, "AssertionError")
  /\ UNCHANGED <<call, generator, rand_state, rng0, drawn, X, y, t, theta, color, figures>>

\* lines 91-94
SpiralGenerator(p) ==
  /\ pc[p] = "spiral:91"
  /\ ObtainGenerator(p)
  /\ theta' = [theta EXCEPT ![p] = spiral_theta(call[p])]
  /\ Goto(p, "spiral:96")
  /\ UNCHANGED <<call, status, rng0, drawn, X, y, t, color, figures>>

\* lines 96-99, the first arm (range(n_classes) is never empty here): line 99 reads
\* the name gap_betweein_start_point, which nothing binds
SpiralArm(p) ==
  /\ pc[p] = "spiral:96"
  /\ ~Resolves("gap_betweein_start_point")
  /\ Raise(p, "NameError")
  /\ UNCHANGED <<call, generator, rand_state, rng0, drawn, X, y, t, theta, color, figures>>

\* ------------------------------------------------------------- make_swiss_roll
\* an array by its shape and its values in order: np.squeeze drops the axes of
\* length 1, so that a 1 x 1 array becomes a 0-dimensional one
Array(shape, data) == [shape |-> shape, data |-> data]
np_squeeze(row) == Array(IF Len(row) = 1 THEN <<>> ELSE <<Len(row)>>, row)

swiss_color_by_max(ts) ==
  Array(ts.shape,
        [i \in 1..Len(ts.data) |-> TrueDivide(ts.data[i] - SeqMin(ts.data), SeqMax(ts.data))])
\* line 163
swiss_color(ts) ==
  Array(ts.shape,
        [i \in 1..Len(ts.data) |->
           TrueDivide(ts.data[i] - SeqMin(ts.data), SeqMax(ts.data) - SeqMin(ts.data))])

\* line 152
SwissGenerator(p) ==
  /\ pc[p] = "swiss_roll:152"
  /\ ObtainGenerator(p)
  /\ Goto(p, "swiss_roll:154")
  /\ UNCHANGED <<call, status, rng0, drawn, X, y, t, theta, color, figures>>

\* line 154
SwissT(p) ==
  /\ pc[p] = "swiss_roll:154"
  /\ LET a == call[p]
         s == rand_state[generator[p]]
     IN t' = [t EXCEPT ![p] =
                [i \in 1..a.n_samples |->
                   Mul(Mul(a.n_rotations, Pi), 1000 + 2 * Uniform(Advance(s, i - 1)))]]
  /\ Draw(p, call[p].n_samples)
  /\ Goto(p, "swiss_roll:155")
  /\ UNCHANGED <<call, status, generator, rng0, X, y, theta, color, figures>>

\* lines 155-159
SwissXYZ(p) ==
  /\ pc[p] = "swiss_roll:155"
  /\ LET a == call[p]
         s == rand_state[generator[p]]
         n == a.n_samples
         xs == [i \in 1..n |-> Mul(Mul(1000 + a.gap, t[p][i]), np_cos(t[p][i]))]
         ys == [i \in 1..n |-> Mul(a.width, Uniform(Advance(s, i - 1)) - 500)]
         zs == [i \in 1..n |-> Mul(Mul(1000 + a.gap, t[p][i]), np_sin(t[p][i]))]
     IN X' = [X EXCEPT ![p] = <<xs, ys, zs>>]
  /\ Draw(p, call[p].n_samples)
  /\ Goto(p, "swiss_roll:160")
  /\ UNCHANGED <<call, status, generator, rng0, y, t, theta, color, figures>>

\* lines 160-161
SwissThickness(p) ==
  /\ pc[p] = "swiss_roll:160"
  /\ LET a == call[p]
         s == rand_state[generator[p]]
         n == a.n_samples
         randn == [r \in 1..3 |-> [i \in 1..n |-> Gauss(Advance(s, (r - 1) * n + i - 1))]]
         rows == [r \in 1..3 |-> [i \in 1..n |-> X[p][r][i] + Mul(a.thickness, randn[r][i])]]
     IN X' = [X EXCEPT ![p] = [i \in 1..n |-> <<rows[1][i], rows[2][i], rows[3][i]>>]]
  /\ Draw(p, 3 * call[p].n_samples)
  /\ Goto(p, "swiss_roll:162")
  /\ UNCHANGED <<call, status, generator, rng0, y, t, theta, color, figures>>

\* lines 162-163: min and max of an empty array raise ValueError
SwissColor(p) ==
  /\ pc[p] = "swiss_roll:162"
  /\ IF Len(t[p]) = 0
     THEN Raise(p, "ValueError") /\ UNCHANGED color
     ELSE /\ color' = [color EXCEPT ![p] = swiss_color(np_squeeze(t[p]))]
          /\ Goto(p, "swiss_roll:165")
          /\ UNCHANGED status
  /\ UNCHANGED <<call, generator, rand_state, rng0, drawn, X, y, t, theta, figures>>

\* line 165
SwissReturn(p) ==
  /\ pc[p] = "swiss_roll:165"
  /\ status' = [status EXCEPT ![p] = "returned"]
  /\ Goto(p, "done")
  /\ UNCHANGED <<call, generator, rand_state, rng0, drawn, X, y, t, theta, color, figures>>

\* ------------------------------------------------------------- ipython_3d_scatter
\* in the call go.Layout(...) the keyword argument xaxis (lines 39-41) is followed
\* by yaxis (line 42) with no comma between them
layout_arguments_separated == FALSE

\* the module _plot.py is compiled when it is first imported, before any of its
\* statements runs, and the def of ipython_3d_scatter is one of its statements
PlotCompile(p) ==
  /\ pc[p] = "plot:1"
  /\ ~layout_arguments_separated
  /\ Raise(p, "SyntaxError")
  /\ UNCHANGED <<call, generator, rand_state, rng0, drawn, X, y, t, theta, color, figures>>

\* ------------------------------------------------------------- the program
Next ==
  \E p \in Threads :
    \/ MoonsAssert(p)
    \/ MoonsGenerator(p)
    \/ MoonsArcs(p)
    \/ MoonsNoise(p)
    \/ MoonsReturn(p)
    \/ SpiralAssert(p)
    \/ SpiralGenerator(p)
    \/ SpiralArm(p)
    \/ SwissGenerator(p)
    \/ SwissT(p)
    \/ SwissXYZ(p)
    \/ SwissThickness(p)
    \/ SwissColor(p)
    \/ SwissReturn(p)
    \/ PlotCompile(p)

Spec == Init /\ [][Next]_vars

\* two calls at once, one in each thread
ConcCalls ==
  [fn : {Moons}, n_samples : {2}, xy_ratio : {0, 1000},
   x_gap : {0}, y_gap : {0}, noise : {None, Some(500)}]
  \cup [fn : {Spiral}, n_samples_per_class : {1}, n_classes : {PyInt(0), PyInt(2)},
        n_rotations : {3000}, gap_between_spiral : {0},
        gap_between_start_point : {0}, equal_interval : {TRUE}, noise : {None}]
  \cup [fn : {SwissRoll}, n_samples : {0, 2}, n_rotations : {1500},
        gap : {0}, thickness : {0}, width : {10000}]
  \cup [fn : {Scatter}, rows : {1}, cols : {3}, color : {1}, text : {None}]

InitConc == \E c1 \in ConcCalls, c2 \in ConcCalls : InitThreads((1 :> c1) @@ (2 :> c2))

SpecConc == InitConc /\ [][Next]_vars


\* ------------------------------------------------------------- properties
Done(p) == pc[p] = "done" /\ call[p] # NoCall
Finished(p, fn) == Done(p) /\ call[p].fn = fn

ValidMoons(a) == a.xy_ratio > 0 /\ a.x_gap >= 0 - 300 /\ a.y_gap >= 0 - 300
PositiveInteger(v) == v.type = "int" /\ v.val >= 1000
Count(s, v) == Cardinality({i \in 1..Len(s) : s[i] = v})

\* C1: a make_moons call with n_samples = N >= 2 and valid parameters returns N
\* points of 2 coordinates and N labels, each 0 or 1: floor(N/2) zeros, which come
\* first (the outer arc), and N - floor(N/2) ones
C1_MoonsShapeAndLabelSplit ==
  \A p \in Threads :
    (Finished(p, Moons) /\ call[p].n_samples >= 2 /\ ValidMoons(call[p])) =>
      LET N == call[p].n_samples IN
      /\ status[p] = "returned"
      /\ Len(X[p]) = N
      /\ \A i \in 1..N : Len(X[p][i]) = 2
      /\ Len(y[p]) = N
      /\ \A i \in 1..N : y[p][i] \in {0, 1}
      /\ Count(y[p], 0) = N \div 2
      /\ Count(y[p], 1) = N - (N \div 2)
      /\ \A i \in 1..(N \div 2) : y[p][i] = 0

C1_Witness ==
  \E p \in Threads :
    /\ Finished(p, Moons) /\ status[p] = "returned"
    /\ call[p].n_samples = 5 /\ call[p].noise = Some(500)
    /\ Count(y[p], 0) = 2 /\ Count(y[p], 1) = 3

C3_SpiralReturnsArmOrderedLabels ==
  \A p \in Threads :
    (Finished(p, Spiral) /\ PositiveInteger(call[p].n_classes)) =>
      LET m == call[p].n_samples_per_class
          k == call[p].n_classes.val \div 1000
      IN /\ status[p] = "returned"
         /\ Len(X[p]) = k * m
         /\ Len(y[p]) = k * m
         /\ \A i \in 1..(k * m) : y[p][i] = (i - 1) \div m

\* C4: a make_spiral call whose n_classes is not a positive integer (0, negative,
\* or not of type int, as 2.0 and 2.5) raises the precondition error and returns
\* nothing
C4_SpiralRejectsNonPositiveInteger ==
  \A p \in Threads :
    (Finished(p, Spiral) /\ ~PositiveInteger(call[p].n_classes)) =>
      /\ status[p] = "AssertionError"
      /\ X[p] = <<>>
      /\ y[p] = <<>>

C4_Witness ==
  \E p \in Threads :
    /\ Finished(p, Spiral) /\ status[p] = "AssertionError"
    /\ call[p].n_classes = PyFloat(2000)

SwissPoints(p) ==
  LET N == call[p].n_samples IN
  /\ status[p] = "returned"
  /\ Len(X[p]) = N
  /\ \A i \in 1..N : Len(X[p][i]) = 3

UnitRange(values) ==
  /\ \A i \in 1..Len(values) :
       values[i].kind = "finite" /\ 0 <= values[i].val /\ values[i].val <= 1000
  /\ \E i \in 1..Len(values) : values[i] = Finite(0)
  /\ \E i \in 1..Len(values) : values[i] = Finite(1000)

C6_ZeroNoiseSameAsNoNoise ==
  \A p \in Threads :
    /\ (Finished(p, Moons) /\ ValidMoons(call[p]) /\ call[p].noise = Some(0)) =>
         /\ status[p] = "returned"
         /\ X[p] = moons_points(call[p])
         /\ y[p] = moons_labels(call[p])
    /\ (Finished(p, Spiral) /\ PositiveInteger(call[p].n_classes)
          /\ call[p].noise = Some(0)) =>
         LET n == (call[p].n_classes.val \div 1000) * call[p].n_samples_per_class IN
         /\ status[p] = "returned"
         /\ Len(X[p]) = n
         /\ Len(y[p]) = n

WellFormedScatter(a) ==
  a.cols = 3 /\ a.color = a.rows /\ (a.text = None \/ a.text = Some(a.rows))

\* C7: an ipython_3d_scatter call whose arguments are ill-formed (X not of 3
\* columns, color or text not of the length of X) fails with nothing rendered;
\* a call with well-formed arguments renders one figure of N markers
C7_ScatterChecksShapesAndRenders ==
  \A p \in Threads :
    Finished(p, Scatter) =>
      IF WellFormedScatter(call[p])
      THEN status[p] = "returned" /\ figures = <<call[p].rows>>
      ELSE status[p] # "returned" /\ figures = <<>>

Alone(p) == Reads(rng0, Len(drawn[p]))

C9_PreconditionFailureLeavesNoTrace ==
  \A p \in Threads :
    status[p] = "AssertionError" =>
      /\ call[p].fn \in {Moons, Spiral}
      /\ generator[p] = Unbound
      /\ drawn[p] = <<>>
      /\ rand_state = (GlobalRand :> rng0)
      /\ X[p] = <<>>
      /\ y[p] = <<>>

C9_Witness ==
  \E p \in Threads :
    /\ status[p] = "AssertionError" /\ call[p].fn = Moons
    /\ call[p].xy_ratio > 0 /\ call[p].x_gap = 0 /\ call[p].y_gap = 0 - 400
    /\ call[p].noise = Some(500) /\ call[p].n_samples = 4

\* C10: a make_moons call with noise=None returns points and labels that are a
\* function of n_samples, xy_ratio, x_gap and y_gap alone, draws nothing, and
\* leaves the random source in the state it was in before the call
C10_MoonsNoNoiseDeterministic ==
  \A p \in Threads :
    (Finished(p, Moons) /\ ValidMoons(call[p]) /\ call[p].noise = None) =>
      /\ status[p] = "returned"
      /\ X[p] = moons_points(call[p])
      /\ y[p] = moons_labels(call[p])
      /\ drawn[p] = <<>>
      /\ rand_state = (GlobalRand :> rng0)

C10_Witness ==
  \E p \in Threads :
    /\ Finished(p, Moons) /\ status[p] = "returned"
    /\ call[p].noise = None /\ call[p].n_samples = 4 /\ Len(X[p]) = 4

====
